---- MODULE Spec2Model ----
(***************************************************************************)
(* Model of WidgetSettingsService (app/services/widgets/settings/          *)
(* widget-settings.ts): the cached widget document (state.data), the async *)
(* operations fetchData / saveData / saveSettings with their HTTP requests *)
(* in flight, the socket-event handler, and the tab view getTabs/getTab;    *)
(* and of the Save button of ChatbotSymbolProtectionWindow.vue.            *)
(*                                                                         *)
(* JavaScript objects are functions whose DOMAIN is the set of own keys,   *)
(* so an absent key and a present key stay different things.               *)
(***************************************************************************)
EXTENDS Integers, Sequences, FiniteSets, TLC

VARIABLES data, calls, emitted, nEvents, last, tabs, apiSettings,
          errorItems, saveClicks

\* the state of the symbol-protection dialog (ChatbotSymbolProtectionWindow.vue)
dialogVars == <<errorItems, saveClicks>>

vars == <<data, calls, emitted, nEvents, last, tabs, apiSettings, dialogVars>>

\* ---------------------------------------------------------------- bounds
MaxCalls == 2
MaxEvents == 1
MaxTabs == 2
MaxSaves == 2

\* ------------------------------------------------------- JavaScript values
\* `undefined` and a JSON `null`, as objects of their own shape
Undefined == [tag |-> "undefined"]
JsonNull == [tag |-> "null"]
\* `undefined` in a string-typed slot (a URL or a tab name)
UndefinedStr == "<undefined>"
UndefinedName == <<"<undefined>">>

\* Object.assign({}, target, source): own keys of source override target's
ObjectAssign(target, source) ==
    [k \in (DOMAIN target) \cup (DOMAIN source) |->
        IF k \in DOMAIN source THEN source[k] ELSE target[k]]

\* a || b where a is a string
StrOr(a, b) == IF a # "" /\ a # UndefinedStr THEN a ELSE b

\* obj.key for a string-typed optional field
StrField(obj, key) == IF key \in DOMAIN obj THEN obj[key] ELSE UndefinedStr

\* ------------------------------------------------- the concrete subclass
\* abstract getWidgetType() and getDataUrl() of the concrete widget
getWidgetType == "K"
getDataUrl == "/d"

\* getApiSettings(): the base class's value and an overriding subclass's
BaseApiSettings == [settingsUpdatedEvent |-> "", settingsSaveUrl |-> ""]
WidgetApiSettings == [settingsUpdatedEvent |-> "upd", settingsSaveUrl |-> "/settings"]
ApiSettingsChoices == {BaseApiSettings, WidgetApiSettings}

\* ------------------------------------------------------------------ tabs
Lower == <<"a","b","c","d","e","f","g","h","i","j","k","l","m",
           "n","o","p","q","r","s","t","u","v","w","x","y","z">>
Upper == <<"A","B","C","D","E","F","G","H","I","J","K","L","M",
           "N","O","P","Q","R","S","T","U","V","W","X","Y","Z">>

\* String.prototype.toUpperCase on one character
ToUpperCase(c) ==
    IF \E i \in 1..Len(Lower) : Lower[i] = c
    THEN Upper[CHOOSE i \in 1..Len(Lower) : Lower[i] = c]
    ELSE c

\* tab.name.charAt(0).toUpperCase() + tab.name.substr(1)
DefaultTitle(name) ==
    IF Len(name) = 0 THEN <<>> ELSE <<ToUpperCase(name[1])>> \o Tail(name)

SettingsName == <<"s","e","t","t","i","n","g","s">>
HtmlName == <<"H","T","M","L">>
CssName == <<"C","S","S">>
JsName == <<"J","S">>
CustomFieldsName == <<"c","u","s","t","o","m","F","i","e","l","d","s">>
CustomFieldsTitle == <<"C","u","s","t","o","m"," ","F","i","e","l","d","s">>
GoalName == <<"g","o","a","l">>
FontName == <<"f","o","n","t">>

\* protected tabs = [{ name: 'settings' }]
DefaultTabs == << [name |-> SettingsName] >>

CODE_EDITOR_TABS ==
    << [name |-> HtmlName, showControls |-> FALSE, autosave |-> FALSE],
       [name |-> CssName, showControls |-> FALSE, autosave |-> FALSE],
       [name |-> JsName, showControls |-> FALSE, autosave |-> FALSE] >>

CODE_EDITOR_WITH_CUSTOM_FIELDS_TABS ==
    CODE_EDITOR_TABS \o
    << [name |-> CustomFieldsName, title |-> CustomFieldsTitle,
        showControls |-> FALSE, autosave |-> FALSE] >>

\* declared entries a subclass may put in `tabs`: Partial<IWidgetTab> & {name}
TabEntries ==
    { DefaultTabs[1],
      CODE_EDITOR_TABS[1],
      CODE_EDITOR_WITH_CUSTOM_FIELDS_TABS[4],
      [name |-> GoalName, fetchUrl |-> "/goal"],
      [name |-> GoalName, saveUrl |-> "/goal/save", resetMethod |-> "POST"],
      [name |-> FontName, resetUrl |-> "/font/reset", autosave |-> FALSE],
      [name |-> FontName, saveUrl |-> "/font/save", resetUrl |-> "/font/reset"] }

RECURSIVE SeqsUpTo(_, _)
SeqsUpTo(S, n) ==
    IF n = 0 THEN {<<>>}
    ELSE LET shorter == SeqsUpTo(S, n - 1)
         IN  shorter \cup {Append(s, e) : s \in shorter, e \in S}

\* the declaration of a widget with a second tab that saves to its own URL
WidgetTabs == DefaultTabs \o << [name |-> GoalName, saveUrl |-> "/goal/save"] >>

TabDeclarations == SeqsUpTo(TabEntries, MaxTabs) \cup {CODE_EDITOR_WITH_CUSTOM_FIELDS_TABS}

\* ResolveTab with the entry spread before the defaults instead of after them
ResolveTab_DefaultsLast(tab) ==
    LET fetchUrl == StrOr(getDataUrl, StrField(tab, "fetchUrl"))
        saveUrl == StrOr(StrField(tab, "saveUrl"), fetchUrl)
        resetUrl == StrOr(StrField(tab, "resetUrl"), saveUrl)
        defaults == [autosave |-> TRUE,
                     title |-> DefaultTitle(tab.name),
                     fetchUrl |-> fetchUrl,
                     saveUrl |-> saveUrl,
                     resetUrl |-> resetUrl,
                     resetMethod |-> "DELETE",
                     showControls |-> TRUE]
    IN  ObjectAssign(tab, defaults)

\* the body of the map callback of getTabs
ResolveTab(tab) ==
    LET resetMethod == "DELETE"
        fetchUrl == StrOr(getDataUrl, StrField(tab, "fetchUrl"))
        saveUrl == StrOr(StrField(tab, "saveUrl"), fetchUrl)
        resetUrl == StrOr(StrField(tab, "resetUrl"), saveUrl)
        defaults == [autosave |-> TRUE,
                     title |-> DefaultTitle(tab.name),
                     fetchUrl |-> fetchUrl,
                     saveUrl |-> saveUrl,
                     resetUrl |-> resetUrl,
                     resetMethod |-> resetMethod,
                     showControls |-> TRUE]
    IN  ObjectAssign(defaults, tab)

getTabs(decl) == [i \in 1..Len(decl) |-> ResolveTab(decl[i])]

\* getTabs().find(tab => tab.name === name)
getTab(decl, name) ==
    LET ts == getTabs(decl)
        hits == {i \in 1..Len(ts) : ts[i].name = name}
    IN  IF hits = {} THEN Undefined
        ELSE ts[CHOOSE i \in hits : \A j \in hits : i <= j]

\* ------------------------------------------------------------- documents
\* bodies the server answers a GET on the data URL with (before patching)
RawDocs ==
    { [settings |-> [a |-> 1, b |-> 2]],
      [type |-> "Other", settings |-> [a |-> 9, b |-> 2], custom |-> [html |-> "h"]] }

\* what response.json() can resolve with
JsonBodies == RawDocs \cup {JsonNull}

\* payloads of socket events (ISocketEvent.message)
Messages == { [a |-> 9], [b |-> 5, type |-> "Other"] }

EventTypes == {"", "upd"}

\* documents handed to saveData and settings handed to saveSettings
SaveDocs == { [type |-> "K", settings |-> [a |-> 2, b |-> 2]] }
SaveSettingsArgs == { [a |-> 2, b |-> 2] }
SaveMethods == {"POST"}

\* patchAfterFetch / patchBeforeSend: the base class's hooks
patchAfterFetch(d) == d
patchBeforeSend(d) == d

\* data.custom / data.type of a null body throws a TypeError
HandleThrows(raw) == raw = JsonNull

\* handleDataAfterFetch without `data.type = this.getWidgetType()`
handleDataAfterFetch_NoStamp(raw) ==
    IF "custom" \in DOMAIN raw
    THEN ObjectAssign(raw, [custom_defaults |-> raw.custom])
    ELSE raw

handleDataAfterFetch(raw) ==
    LET d1 == IF "custom" \in DOMAIN raw
              THEN ObjectAssign(raw, [custom_defaults |-> raw.custom])
              ELSE raw
        d2 == ObjectAssign(d1, [type |-> getWidgetType])
    IN  patchAfterFetch(d2)

\* the Request built by request(): method defaults to GET, body only if truthy
Req(url, method, body) == [url |-> url, method |-> method, body |-> body]

\* ------------------------------------------------------------------ state
\* data     state.data, Undefined until the first SET_WIDGET_DATA
\* calls    the calls of fetchData / saveData / saveSettings suspended at an
\*          await, by slot: the call's kind, where it waits and the requests
\*          it has issued; a slot is Idle again once its call has settled
\* emitted  the documents passed to dataUpdated.next, in order
\* nEvents  the number of socket events delivered
\* last     the step just taken: operation, slot, the call's kind, state and
\*          requests after the step, and the value it resolved with
Present == data # Undefined

Idle == [pc |-> "idle"]
Slots == 1..MaxCalls
Pending == {"save", "get", "post"}
FreeSlots == {i \in Slots : calls[i] = Idle}
FreeSlot == CHOOSE i \in FreeSlots : \A j \in FreeSlots : i <= j

NoCalls == [i \in Slots |-> Idle]
NoStep == [op |-> "init", call |-> 0, kind |-> "none", pc |-> "idle",
           reqs |-> <<>>, ret |-> Undefined]

Init ==
    /\ data = Undefined
    /\ calls = NoCalls
    /\ emitted = <<>>
    /\ nEvents = 0
    /\ last = NoStep
    /\ tabs = WidgetTabs
    /\ apiSettings \in ApiSettingsChoices
    /\ errorItems = {}
    /\ saveClicks = 0

\* SET_WIDGET_DATA(d): the mutation; setWidgetData(d): the mutation and then
\* dataUpdated.next(this.state.data)
SET_WIDGET_DATA(d) == data' = d

\* setWidgetData notifying with the document it is about to replace
setWidgetData_EmitsOld(d) == SET_WIDGET_DATA(d) /\ emitted' = Append(emitted, data)

setWidgetData(d) == SET_WIDGET_DATA(d) /\ emitted' = Append(emitted, d)

\* fetchData without the `if (!this.state.data)` test: it always GETs
fetchDataEnter_NoCacheCheck(c) ==
    [c EXCEPT !.pc = "get",
              !.reqs = Append(@, Req(getDataUrl, "GET", Undefined))]

\* fetchData joining a GET that is already in flight instead of issuing its own
fetchDataEnter_Dedup(c) ==
    IF ~Present
    THEN IF \E i \in Slots : calls[i].pc = "get"
         THEN [c EXCEPT !.pc = "get"]
         ELSE [c EXCEPT !.pc = "get",
                        !.reqs = Append(@, Req(getDataUrl, "GET", Undefined))]
    ELSE [c EXCEPT !.pc = "resolved"]

\* the synchronous part of fetchData run on behalf of call record c:
\* GET the data URL when nothing is cached, else return the cached document
fetchDataEnter(c) ==
    IF ~Present
    THEN [c EXCEPT !.pc = "get",
                   !.reqs = Append(@, Req(getDataUrl, "GET", Undefined))]
    ELSE [c EXCEPT !.pc = "resolved"]

\* fetchData without its `return this.state.data`
fetchDataReturn_Nothing(c) == Undefined

\* `return this.state.data` of a call that did not suspend
fetchDataReturn(c) == IF c.pc = "resolved" THEN data ELSE Undefined

\* slot i holds call record c while c waits, and is Idle once c has settled
Park(i, c) == calls' = [calls EXCEPT ![i] = IF c.pc \in Pending THEN c ELSE Idle]

Step(op, i, c, ret) ==
    [op |-> op, call |-> i, kind |-> c.kind, pc |-> c.pc, reqs |-> c.reqs, ret |-> ret]

\* fetchData()
FetchDataCall ==
    /\ LET c == fetchDataEnter([kind |-> "fetchData", pc |-> "new", reqs |-> <<>>])
       IN  IF c.pc \in Pending
           THEN /\ FreeSlots # {}
                /\ Park(FreeSlot, c)
                /\ last' = Step("fetchData", FreeSlot, c, fetchDataReturn(c))
           ELSE /\ UNCHANGED calls
                /\ last' = Step("fetchData", 0, c, fetchDataReturn(c))
    /\ UNCHANGED <<data, emitted, nEvents, tabs, apiSettings, dialogVars>>

\* fetchData storing its response through setWidgetData, which notifies
FetchDataResume_Notifies(i, raw) ==
    /\ i \in Slots
    /\ calls[i].pc = "get"
    /\ IF HandleThrows(raw)
       THEN /\ Park(i, [calls[i] EXCEPT !.pc = "rejected"])
            /\ last' = Step("fetchThrew", i, [calls[i] EXCEPT !.pc = "rejected"], Undefined)
            /\ UNCHANGED <<data, emitted>>
       ELSE /\ setWidgetData(handleDataAfterFetch(raw))
            /\ Park(i, [calls[i] EXCEPT !.pc = "resolved"])
            /\ last' = Step("fetchResumed", i, [calls[i] EXCEPT !.pc = "resolved"], data')
    /\ UNCHANGED <<nEvents, tabs, apiSettings, dialogVars>>

\* fetchData that keeps a document cached in the meantime instead of storing
\* its own response
FetchDataResume_KeepsExisting(i, raw) ==
    /\ i \in Slots
    /\ calls[i].pc = "get"
    /\ IF HandleThrows(raw)
       THEN /\ Park(i, [calls[i] EXCEPT !.pc = "rejected"])
            /\ last' = Step("fetchThrew", i, [calls[i] EXCEPT !.pc = "rejected"], Undefined)
            /\ UNCHANGED data
       ELSE /\ IF Present THEN UNCHANGED data
                         ELSE SET_WIDGET_DATA(handleDataAfterFetch(raw))
            /\ Park(i, [calls[i] EXCEPT !.pc = "resolved"])
            /\ last' = Step("fetchResumed", i, [calls[i] EXCEPT !.pc = "resolved"], data')
    /\ UNCHANGED <<emitted, nEvents, tabs, apiSettings, dialogVars>>

\* fetchData resumed after `await this.request(...)` resolved with raw
FetchDataResume(i, raw) ==
    /\ i \in Slots
    /\ calls[i].pc = "get"
    /\ IF HandleThrows(raw)
       THEN /\ Park(i, [calls[i] EXCEPT !.pc = "rejected"])
            /\ last' = Step("fetchThrew", i, [calls[i] EXCEPT !.pc = "rejected"], Undefined)
            /\ UNCHANGED data
       ELSE /\ SET_WIDGET_DATA(handleDataAfterFetch(raw))
            /\ Park(i, [calls[i] EXCEPT !.pc = "resolved"])
            /\ last' = Step("fetchResumed", i, [calls[i] EXCEPT !.pc = "resolved"], data')
    /\ UNCHANGED <<emitted, nEvents, tabs, apiSettings, dialogVars>>

\* saveData(doc, tabName, method) up to its await
SaveDataCall(doc, tabName, method) ==
    /\ FreeSlots # {}
    /\ LET tab == getTab(tabs, tabName)
           url == IF tab # Undefined /\ StrOr(tab.saveUrl, "") # ""
                  THEN tab.saveUrl ELSE getDataUrl
           bodyData == patchBeforeSend(doc)
           c == [kind |-> "saveData", pc |-> "save",
                 reqs |-> <<Req(url, method, bodyData)>>]
       IN  /\ Park(FreeSlot, c)
           /\ last' = Step("saveData", FreeSlot, c, Undefined)
    /\ UNCHANGED <<data, emitted, nEvents, tabs, apiSettings, dialogVars>>

\* saveData storing the body its own request was answered with
SaveDataResume_StoresEcho(i) ==
    /\ i \in Slots
    /\ calls[i].pc = "save"
    /\ \E raw \in RawDocs : SET_WIDGET_DATA(handleDataAfterFetch(raw))
    /\ Park(i, [calls[i] EXCEPT !.pc = "resolved"])
    /\ last' = Step("saveResumed", i, [calls[i] EXCEPT !.pc = "resolved"], data')
    /\ UNCHANGED <<emitted, nEvents, tabs, apiSettings, dialogVars>>

\* saveData resumed after its request resolved: whatever body the response
\* carried is dropped and the call returns this.fetchData()
SaveDataResume(i) ==
    /\ i \in Slots
    /\ calls[i].pc = "save"
    /\ LET c == fetchDataEnter(calls[i])
       IN  /\ Park(i, c)
           /\ last' = Step("saveResumed", i, c, fetchDataReturn(c))
    /\ UNCHANGED <<data, emitted, nEvents, tabs, apiSettings, dialogVars>>

\* saveSettings(settings) up to its await
SaveSettingsCall(settings) ==
    /\ FreeSlots # {}
    /\ LET body == patchBeforeSend(settings)
           c == [kind |-> "saveSettings", pc |-> "post",
                 reqs |-> <<Req(apiSettings.settingsSaveUrl, "POST", body)>>]
       IN  /\ Park(FreeSlot, c)
           /\ last' = Step("saveSettings", FreeSlot, c, Undefined)
    /\ UNCHANGED <<data, emitted, nEvents, tabs, apiSettings, dialogVars>>

\* saveSettings writing the settings it sent into the cached document
SaveSettingsResume_PatchesCache(i) ==
    /\ i \in Slots
    /\ calls[i].pc = "post"
    /\ IF Present
       THEN SET_WIDGET_DATA(ObjectAssign(data, [settings |-> calls[i].reqs[1].body]))
       ELSE UNCHANGED data
    /\ Park(i, [calls[i] EXCEPT !.pc = "resolved"])
    /\ last' = Step("settingsResumed", i, [calls[i] EXCEPT !.pc = "resolved"], Undefined)
    /\ UNCHANGED <<emitted, nEvents, tabs, apiSettings, dialogVars>>

\* saveSettings resumed after its request resolved; the body is dropped
SaveSettingsResume(i) ==
    /\ i \in Slots
    /\ calls[i].pc = "post"
    /\ Park(i, [calls[i] EXCEPT !.pc = "resolved"])
    /\ last' = Step("settingsResumed", i, [calls[i] EXCEPT !.pc = "resolved"], Undefined)
    /\ UNCHANGED <<data, emitted, nEvents, tabs, apiSettings, dialogVars>>

\* a failed request that also drops the cached document
RequestRejects_ClearsCache(i) ==
    /\ i \in Slots
    /\ calls[i].pc \in Pending
    /\ data' = Undefined
    /\ Park(i, [calls[i] EXCEPT !.pc = "rejected"])
    /\ last' = Step("requestRejected", i, [calls[i] EXCEPT !.pc = "rejected"], Undefined)
    /\ UNCHANGED <<emitted, nEvents, tabs, apiSettings, dialogVars>>

\* a failed save request that is sent once more instead of rejecting the call
RequestRejects_Retries(i) ==
    /\ i \in Slots
    /\ calls[i].pc \in Pending
    /\ LET c == IF calls[i].pc = "save" /\ Len(calls[i].reqs) = 1
                THEN [calls[i] EXCEPT !.reqs = Append(@, @[1])]
                ELSE [calls[i] EXCEPT !.pc = "rejected"]
       IN  /\ Park(i, c)
           /\ last' = Step("requestRejected", i, c, Undefined)
    /\ UNCHANGED <<data, emitted, nEvents, tabs, apiSettings, dialogVars>>

\* the promise of request() rejects: fetch() failed, handleErrors threw on a
\* non-2xx status, or response.json() could not parse the body
RequestRejects(i) ==
    /\ i \in Slots
    /\ calls[i].pc \in Pending
    /\ Park(i, [calls[i] EXCEPT !.pc = "rejected"])
    /\ last' = Step("requestRejected", i, [calls[i] EXCEPT !.pc = "rejected"], Undefined)
    /\ UNCHANGED <<data, emitted, nEvents, tabs, apiSettings, dialogVars>>

\* patchedData merging the payload into the previous settings
patchedData_Overlay(d, message) ==
    ObjectAssign(d, [settings |-> ObjectAssign(d.settings, patchAfterFetch(message))])

\* patchedData assigning the payload onto the document itself as well
patchedData_TopLevel(d, message) ==
    ObjectAssign(ObjectAssign(d, patchAfterFetch(message)),
                 [settings |-> patchAfterFetch(message)])

\* lines 115-117 of onSettingsUpdatedHandler: the document the handler stores
\* for cached document d and payload message
patchedData(d, message) ==
    LET newSettings == patchAfterFetch(message)
        copy == ObjectAssign(<<>>, d)
    IN  ObjectAssign(copy, [settings |-> newSettings])

\* onSettingsUpdatedHandler without the event-type test
onSettingsUpdatedHandler_NoTypeCheck(event) ==
    IF ~Present
    THEN UNCHANGED <<data, emitted>>
    ELSE setWidgetData(patchedData(data, event.message))

\* onSettingsUpdatedHandler without the `if (!this.state.data) return` test
onSettingsUpdatedHandler_NoDataCheck(event) ==
    IF event.type # apiSettings.settingsUpdatedEvent
    THEN UNCHANGED <<data, emitted>>
    ELSE IF ~Present
    THEN setWidgetData([settings |-> patchAfterFetch(event.message)])
    ELSE setWidgetData(patchedData(data, event.message))

\* onSettingsUpdatedHandler(event)
onSettingsUpdatedHandler(event) ==
    IF event.type # apiSettings.settingsUpdatedEvent
    THEN UNCHANGED <<data, emitted>>
    ELSE IF ~Present
    THEN UNCHANGED <<data, emitted>>
    ELSE setWidgetData(patchedData(data, event.message))

\* the socketEvent subscription of init() delivers an event
SocketEvent(event) ==
    /\ nEvents < MaxEvents
    /\ nEvents' = nEvents + 1
    /\ onSettingsUpdatedHandler(event)
    /\ last' = [op |-> "socketEvent", call |-> 0, kind |-> "none", pc |-> "idle",
                reqs |-> <<>>, ret |-> Undefined, event |-> event]
    /\ UNCHANGED <<calls, tabs, apiSettings, dialogVars>>

Events == [type : EventTypes, message : Messages]

Next ==
    \/ FetchDataCall
    \/ \E i \in Slots, raw \in JsonBodies : FetchDataResume(i, raw)
    \/ \E doc \in SaveDocs, m \in SaveMethods,
          n \in {tabs[k].name : k \in 1..Len(tabs)} \cup {UndefinedName} :
            SaveDataCall(doc, n, m)
    \/ \E i \in Slots : SaveDataResume(i)
    \/ \E s \in SaveSettingsArgs : SaveSettingsCall(s)
    \/ \E i \in Slots : SaveSettingsResume(i)
    \/ \E i \in Slots : RequestRejects(i)
    \/ \E e \in Events : SocketEvent(e)

Spec == Init /\ [][Next]_vars

\* the request call i waits for is answered: with a body, or with a failure
Respond(i) ==
    \/ \E raw \in JsonBodies : FetchDataResume(i, raw)
    \/ SaveDataResume(i)
    \/ SaveSettingsResume(i)
    \/ RequestRejects(i)

\* every request issued is eventually answered
SpecFair == Spec /\ \A i \in Slots : WF_vars(Respond(i))

\* --------------------------------------------------- the tab view alone
InitTabs ==
    /\ data = Undefined
    /\ calls = NoCalls
    /\ emitted = <<>>
    /\ nEvents = 0
    /\ last = NoStep
    /\ tabs \in TabDeclarations
    /\ apiSettings \in ApiSettingsChoices
    /\ errorItems = {}
    /\ saveClicks = 0

GetTabsCall ==
    /\ last' = [NoStep EXCEPT !.op = "getTabs", !.ret = getTabs(tabs)]
    /\ UNCHANGED <<data, calls, emitted, nEvents, tabs, apiSettings, dialogVars>>

GetTabCall(name) ==
    /\ last' = [op |-> "getTab", call |-> 0, kind |-> "none", pc |-> "idle",
                reqs |-> <<>>, ret |-> getTab(tabs, name), name |-> name]
    /\ UNCHANGED <<data, calls, emitted, nEvents, tabs, apiSettings, dialogVars>>

TabNames == {e.name : e \in TabEntries} \cup {UndefinedName}

NextTabs ==
    \/ GetTabsCall
    \/ \E n \in TabNames : GetTabCall(n)

SpecTabs == InitTabs /\ [][NextTabs]_vars

\* ------------------------------------- the symbol-protection dialog alone
\* the validated inputs of the form: the v-model of each VFormGroup
FormFields == {"excluded.level", "punishment.type", "punishment.duration",
               "message", "minimum", "maximum", "percent"}

\* :disabled="errors.items.length > 1", a Save button that tolerates one error
SaveDisabled_AllowsOne == Cardinality(errorItems) > 1

\* :disabled="errors.items.length > 0" of the Save button
SaveDisabled == Cardinality(errorItems) > 0

InitDialog ==
    /\ data = Undefined
    /\ calls = NoCalls
    /\ emitted = <<>>
    /\ nEvents = 0
    /\ last = NoStep
    /\ tabs = WidgetTabs
    /\ apiSettings = BaseApiSettings
    /\ errorItems = {}
    /\ saveClicks = 0

serviceVars == <<data, calls, emitted, nEvents, last, tabs, apiSettings>>

\* the validated form reports an error on an input: errors.items gains an item
ValidationFails(field) ==
    /\ field \notin errorItems
    /\ errorItems' = errorItems \cup {field}
    /\ UNCHANGED <<saveClicks, serviceVars>>

\* the input is valid again: its item leaves errors.items
ValidationPasses(field) ==
    /\ field \in errorItems
    /\ errorItems' = errorItems \ {field}
    /\ UNCHANGED <<saveClicks, serviceVars>>

\* a click on the Save button: a disabled button fires no click event, an
\* enabled one runs onSaveHandler
ClickSave ==
    /\ ~SaveDisabled
    /\ saveClicks < MaxSaves
    /\ saveClicks' = saveClicks + 1
    /\ UNCHANGED <<errorItems, serviceVars>>

NextDialog ==
    \/ \E f \in FormFields : ValidationFails(f)
    \/ \E f \in FormFields : ValidationPasses(f)
    \/ ClickSave

SpecDialog == InitDialog /\ [][NextDialog]_vars

\* ------------------------------------------------------------ properties
\* the requests issued so far, as (call, position) pairs, and the GETs among them
\* the calls waiting for an answer
InFlight == {i \in Slots : calls[i].pc \in Pending}

GetRequest == Req(getDataUrl, "GET", Undefined)

IsEventStep(l) == l.op = "socketEvent"
Matches(l) == l.event.type = apiSettings.settingsUpdatedEvent

\* C1: every saveData call that has resolved issued its save request and then
\* a GET on the data URL, and resolved with the document that GET produced,
\* whatever the cache held when it was called.
C1_SaveAlwaysRefetches ==
    (last.kind = "saveData" /\ last.pc = "resolved")
        => /\ Len(last.reqs) = 2
           /\ last.reqs[2] = GetRequest
           /\ last.op = "fetchResumed"
           /\ last.ret = data

\* C2 as stated: an accepted push event overlays the payload on the previous
\* cached settings, so fields absent from the payload keep their value.
C2_PushOverlaysSettings ==
    [][ (IsEventStep(last') /\ Matches(last') /\ Present)
            => data'.settings = ObjectAssign(data.settings, last'.event.message) ]_vars

\* C2 amended: an accepted push event replaces the cached settings by the
\* payload as a whole: the new settings are exactly the payload, and a field
\* absent from the payload is absent from the new settings.
C2_PushReplacesSettings ==
    [][ (IsEventStep(last') /\ Matches(last') /\ Present)
            => /\ data'.settings = last'.event.message
               /\ \A k \in DOMAIN data.settings :
                      k \notin DOMAIN last'.event.message => k \notin DOMAIN data'.settings ]_vars

\* cached settings {a, b} met payload {a:9}: the cache now holds {a:9} only
C2_Witness ==
    /\ IsEventStep(last) /\ Matches(last)
    /\ Len(emitted) = 1
    /\ last.event.message = [a |-> 9]
    /\ data.settings = [a |-> 9]

\* C3: fetchData called with the cache Present issues no request, leaves the
\* cache as it is and returns the cached document; consecutive such calls
\* return the same value and the number of GETs issued does not grow.
C3_FetchFromCache ==
    [][ (last'.op = "fetchData" /\ Present)
            => /\ data' = data
               /\ last'.reqs = <<>>
               /\ calls' = calls
               /\ last'.pc = "resolved"
               /\ last'.ret = data
               /\ last.op = "fetchData" /\ last.ret # Undefined => last'.ret = last.ret ]_vars

\* a fetchData call was answered from the cache while a GET was in flight
C3_Witness ==
    /\ last.op = "fetchData" /\ last.ret = data /\ Present
    /\ last.reqs = <<>>
    /\ \E i \in InFlight : calls[i].pc = "get"

\* C4: an event whose type is not the registered update event changes neither
\* the cached document nor the dataUpdated stream, in every cache state.
C4_OtherEventsIgnored ==
    [][ (IsEventStep(last') /\ ~Matches(last'))
            => data' = data /\ emitted' = emitted ]_vars

\* an event of another type was handled on a Present cache with a request in flight
C4_Witness ==
    /\ IsEventStep(last) /\ ~Matches(last)
    /\ Present
    /\ InFlight # {}

\* C5: a matching event handled while nothing is cached leaves the cache
\* Absent and emits nothing, and a fetch that completes afterwards stores the
\* patched response only, never the payload of an earlier event.
C5_PushIgnoredWhileAbsent ==
    [][ /\ (IsEventStep(last') /\ Matches(last') /\ ~Present)
            => data' = Undefined /\ emitted' = emitted
        /\ last'.op = "fetchResumed"
            => \E raw \in RawDocs : data' = handleDataAfterFetch(raw) ]_vars

\* a matching event arrived while the first GET was still in flight
C5_Witness ==
    /\ IsEventStep(last) /\ Matches(last)
    /\ ~Present
    /\ emitted = <<>>
    /\ \E i \in InFlight : calls[i].kind = "fetchData" /\ calls[i].pc = "get"

\* C6: when a request fails, its call rejects and the cached document is what
\* it was before the failure.
C6_FailureKeepsCache ==
    [][ last'.op = "requestRejected"
            => /\ data' = data
               /\ emitted' = emitted
               /\ last'.pc = "rejected"
               /\ calls[last'.call].pc \in Pending
               /\ calls'[last'.call] = Idle ]_vars

\* a request failed while a document was cached
C6_Witness ==
    /\ last.op = "requestRejected"
    /\ Present
    /\ last.kind = "saveData"
    /\ last.pc = "rejected"

\* C7: getTabs() returns one tab per declared entry, in declaration order; an
\* entry that declares no URL gets fetchUrl = getDataUrl(), saveUrl = fetchUrl
\* and resetUrl = saveUrl; resetMethod, autosave, showControls and title are
\* DELETE, true, true and the capitalised name unless the entry declares them,
\* and then the declared value is returned.
UrlFields == {"fetchUrl", "saveUrl", "resetUrl"}

C7_Expected(entry, field) ==
    IF field \in DOMAIN entry THEN entry[field]
    ELSE CASE field = "resetMethod" -> "DELETE"
           [] field = "autosave" -> TRUE
           [] field = "showControls" -> TRUE
           [] field = "title" -> <<ToUpperCase(Head(entry.name))>> \o Tail(entry.name)

C7_TabDefaults ==
    last.op = "getTabs" =>
        /\ Len(last.ret) = Len(tabs)
        /\ \A i \in 1..Len(tabs) :
            LET entry == tabs[i]
                tab == last.ret[i]
            IN  /\ tab.name = entry.name
                /\ DOMAIN tab = UrlFields \cup
                     {"name", "title", "resetMethod", "autosave", "showControls"}
                /\ (UrlFields \cap DOMAIN entry = {})
                      => /\ tab.fetchUrl = getDataUrl
                         /\ tab.saveUrl = tab.fetchUrl
                         /\ tab.resetUrl = tab.saveUrl
                /\ \A f \in {"resetMethod", "autosave", "showControls", "title"} :
                      tab[f] = C7_Expected(entry, f)
                /\ entry.name = SettingsName /\ "title" \notin DOMAIN entry
                      => tab.title = <<"S","e","t","t","i","n","g","s">>

\* getTabs ran on a two-entry declaration without URLs: one entry declares
\* nothing, the other declares title, showControls and autosave
C7_Witness ==
    /\ last.op = "getTabs"
    /\ tabs = << [name |-> SettingsName], CODE_EDITOR_WITH_CUSTOM_FIELDS_TABS[4] >>
    /\ last.ret[1].title = <<"S","e","t","t","i","n","g","s">>
    /\ last.ret[2].title = CustomFieldsTitle
    /\ last.ret[2].showControls = FALSE

\* C8: whenever a document is cached its type is getWidgetType(), whatever type
\* the GET response or a push payload carried.
C8_TypeIsWidgetType ==
    Present => "type" \in DOMAIN data /\ data.type = getWidgetType

\* the response carried another type, and so did an accepted payload
C8_Witness ==
    /\ Present
    /\ "custom" \in DOMAIN data
    /\ "type" \in DOMAIN data.settings /\ data.settings.type = "Other"
    /\ data.type = "K"

\* C9: the cache leaves Absent only in the step that completes a GET issued by
\* fetchData, and a Present cache stays Present in every step.
C9_AbsentToPresentOnlyByGet ==
    [][ /\ (~Present /\ data' # Undefined)
            => /\ last'.op = "fetchResumed"
               /\ calls[last'.call].pc = "get"
               /\ last'.reqs[Len(last'.reqs)] = GetRequest
               /\ last'.pc = "resolved"
        /\ Present => data' # Undefined ]_vars

\* a cached document outlived a failed request, a null body and a push event
C9_Witness ==
    /\ Present
    /\ nEvents > 0
    /\ last.op = "requestRejected"
    /\ last.kind = "saveData"
    /\ Len(last.reqs) = 2

\* C10: saveSettings issues exactly one request, a POST to settingsSaveUrl, and
\* no step of a saveSettings call (the call, its success, its failure) changes
\* the cached document or emits on dataUpdated.
C10_SaveSettingsLeavesCache ==
    [][ last'.kind = "saveSettings"
            => /\ Len(last'.reqs) = 1
               /\ last'.reqs[1].method = "POST"
               /\ last'.reqs[1].url = apiSettings.settingsSaveUrl
               /\ data' = data
               /\ emitted' = emitted ]_vars

\* a saveSettings call resolved with a document cached
C10_Witness ==
    /\ Present
    /\ last.op = "settingsResumed"
    /\ last.pc = "resolved"
    /\ last.reqs = <<Req(apiSettings.settingsSaveUrl, "POST", [a |-> 2, b |-> 2])>>

\* C11: the Save button is disabled whenever errors.items is non-empty, so no
\* step runs the save handler from the button while a validation error exists.
C11_NoSaveWithErrors ==
    [][ /\ errorItems # {} => SaveDisabled
        /\ saveClicks' # saveClicks => errorItems = {} ]_vars

\* the handler ran once, and now two inputs are invalid and the button is disabled
C11_Witness ==
    /\ saveClicks = 1
    /\ Cardinality(errorItems) = 2
    /\ SaveDisabled

\* C12: in every tab getTabs() returns, also for an entry that declares a
\* fetchUrl, a saveUrl the entry does not declare equals the returned fetchUrl
\* and a resetUrl the entry does not declare equals the returned saveUrl.
C12_UrlDefaultsChain ==
    last.op = "getTabs" =>
        \A i \in 1..Len(tabs) :
            LET entry == tabs[i]
                tab == last.ret[i]
            IN  /\ "saveUrl" \notin DOMAIN entry => tab.saveUrl = tab.fetchUrl
                /\ "resetUrl" \notin DOMAIN entry => tab.resetUrl = tab.saveUrl

\* a push event that passes both tests of the handler
Accepted(l) == IsEventStep(l) /\ Matches(l) /\ Present

\* C13: an accepted push event leaves every top-level field of the cached
\* document other than settings as it was: same fields, same values.
C13_PushKeepsOtherFields ==
    [][ Accepted(last')
            => /\ (DOMAIN data') \ {"settings"} = (DOMAIN data) \ {"settings"}
               /\ \A k \in (DOMAIN data) \ {"settings"} : data'[k] = data[k] ]_vars

\* a payload carrying its own type was accepted on a document with custom_defaults
C13_Witness ==
    /\ IsEventStep(last) /\ Matches(last)
    /\ emitted # <<>>
    /\ last.event.message = [b |-> 5, type |-> "Other"]
    /\ data.settings = last.event.message
    /\ "custom_defaults" \in DOMAIN data
    /\ data.custom_defaults = [html |-> "h"]
    /\ data.type = "K"

\* C14: an accepted push event emits exactly once on dataUpdated, and what it
\* emits is the document the cache holds after the replacement.
C14_PushEmitsNewData ==
    [][ Accepted(last')
            => /\ Len(emitted') = Len(emitted) + 1
               /\ emitted' = Append(emitted, data')
               /\ data'.settings = last'.event.message ]_vars

\* every event so far was accepted: as many emissions, the last one the
\* document now cached
C14_Witness ==
    /\ IsEventStep(last) /\ Matches(last)
    /\ nEvents > 0
    /\ Len(emitted) = nEvents
    /\ emitted[Len(emitted)] = data
    /\ data.settings = last.event.message

\* the calls waiting for the answer to a GET, among call records cs
GetsWaiting(cs) == {i \in Slots : cs[i].pc = "get"}

\* C15: every fetchData call started with nothing cached issues a GET of its
\* own, whatever GETs are already in flight, and every GET that completes
\* successfully writes the cache.
C15_FetchNotDeduplicated ==
    [][ /\ (last'.op = "fetchData" /\ ~Present)
            => /\ last'.reqs = <<GetRequest>>
               /\ calls[last'.call] = Idle
               /\ calls'[last'.call].reqs = <<GetRequest>>
               /\ GetsWaiting(calls') = GetsWaiting(calls) \cup {last'.call}
               /\ Cardinality(GetsWaiting(calls')) = Cardinality(GetsWaiting(calls)) + 1
        /\ last'.op = "fetchResumed"
            => /\ last'.call \in GetsWaiting(calls)
               /\ data' = last'.ret
               /\ data' # Undefined ]_vars

\* two fetchData calls started before either completed: two GETs in flight
C15_Witness ==
    /\ last.op = "fetchData"
    /\ ~Present
    /\ Cardinality(GetsWaiting(calls)) = 2
    /\ \A i \in GetsWaiting(calls) :
           calls[i].kind = "fetchData" /\ calls[i].reqs = <<GetRequest>>

\* the documents a successful GET can leave in the cache
NormalizedResponses ==
    { [type |-> "K", settings |-> [a |-> 1, b |-> 2]],
      [type |-> "K", settings |-> [a |-> 9, b |-> 2],
       custom |-> [html |-> "h"], custom_defaults |-> [html |-> "h"]] }

\* C16: every step that changes the cache stores either the whole normalized
\* response of one fetch or the previous document with the settings of one
\* accepted push; a completing fetch stores its response over whatever a push
\* or another fetch stored before, so the cache is always the latest write.
C16_LastWriterWins ==
    [][ /\ data' # data
            => \/ last'.op = "fetchResumed" /\ data' \in NormalizedResponses
               \/ /\ Accepted(last')
                  /\ data' = [data EXCEPT !.settings = last'.event.message]
        /\ last'.op = "fetchResumed"
            => data' \in NormalizedResponses /\ last'.ret = data'
        /\ (Accepted(last') /\ emitted' # <<>>)
            => data' = emitted'[Len(emitted')] ]_vars

\* a GET that completed after an accepted push replaced the pushed document
C16_Witness ==
    /\ last.op = "fetchResumed"
    /\ emitted # <<>>
    /\ data \in NormalizedResponses
    /\ data # emitted[Len(emitted)]

\* C17: when the save request of saveData fails, the call rejects having
\* issued that one request only: no GET follows and nothing is sent again.
C17_FailedSaveNoRefetch ==
    [][ (last'.op = "requestRejected" /\ last'.kind = "saveData"
            /\ calls[last'.call].pc = "save")
            => /\ last'.pc = "rejected"
               /\ calls'[last'.call] = Idle
               /\ Len(last'.reqs) = 1
               /\ last'.reqs = calls[last'.call].reqs
               /\ last'.reqs[1].method # "GET" ]_vars

\* the POST of a saveData call failed and the call was rejected
C17_Witness ==
    /\ last.op = "requestRejected"
    /\ last.kind = "saveData"
    /\ last.pc = "rejected"
    /\ Len(last.reqs) = 1
    /\ last.reqs[1].method = "POST"

\* the two ways a promise settles
Settled == {"resolved", "rejected"}

\* the steps in which an awaited request is answered
AnswerSteps == {"fetchResumed", "fetchThrew", "saveResumed", "settingsResumed",
                "requestRejected"}

\* C18: when every request is eventually answered, every call that waits
\* eventually settles; a call settles only in the step that answers the
\* request it waits for, and a fetchData or saveData call that resolves does
\* so with the cached document.
C18_CallsSettle ==
    /\ \A i \in Slots : (calls[i].pc \in Pending) ~> (calls[i] = Idle)
    /\ [][ /\ (last'.call \in Slots /\ last'.pc \in Settled)
               => /\ calls[last'.call].pc \in Pending
                  /\ last'.op \in AnswerSteps
                  /\ calls'[last'.call] = Idle
           /\ \A i \in Slots :
                  (calls[i].pc \in Pending /\ calls'[i] # calls[i])
                      => last'.call = i /\ last'.op \in AnswerSteps
           /\ (last'.kind \in {"fetchData", "saveData"} /\ last'.pc = "resolved")
               => last'.ret = data' /\ data' # Undefined ]_vars

\* a saveData call went through both of its requests and resolved
C18_Witness ==
    /\ last.op = "fetchResumed"
    /\ last.kind = "saveData"
    /\ last.pc = "resolved"
    /\ Len(last.reqs) = 2
    /\ last.ret = data
    /\ calls[last.call] = Idle

\* C19: the cache changes only in the step that completes a GET or in an
\* accepted push event, and a GET is issued only while nothing is cached. So
\* from a state with a document cached and no GET in flight no GET is ever in
\* flight again, only accepted push events change the document, and no step of
\* a saveData or saveSettings call changes it.
C19_OnlyGetAndPushWrite ==
    [][ /\ data' # data
            => \/ last'.op = "fetchResumed" /\ last'.call \in GetsWaiting(calls)
               \/ Accepted(last')
        /\ GetsWaiting(calls') \ GetsWaiting(calls) # {} => ~Present
        /\ (Present /\ GetsWaiting(calls) = {})
            => /\ GetsWaiting(calls') = {}
               /\ data' # data => Accepted(last')
               /\ last'.kind \in {"saveData", "saveSettings"} => data' = data ]_vars

\* a saveData call started after a push changed the cached document resolved
\* without a GET, and the pushed document is still the one cached
C19_Witness ==
    /\ last.op = "saveResumed"
    /\ last.pc = "resolved"
    /\ Len(last.reqs) = 1
    /\ GetsWaiting(calls) = {}
    /\ emitted # <<>>
    /\ data = emitted[Len(emitted)]

\* C20: dataUpdated emits only in accepted push events, one emission each, and
\* a completing fetchData (of a fetchData call or of the GET inside saveData)
\* emits nothing, whether or not it changes the cache; so the number of
\* emissions grows exactly with the accepted push events.
C20_OnlyPushEmits ==
    [][ /\ emitted' # emitted
            => Accepted(last') /\ emitted' = Append(emitted, data')
        /\ last'.op \in {"fetchData", "fetchResumed", "saveResumed"}
            => emitted' = emitted
        /\ Len(emitted') = Len(emitted) + (IF Accepted(last') THEN 1 ELSE 0)
        /\ Len(emitted') <= nEvents' ]_vars

\* the GET inside a saveData call took the cache from Absent to Present and
\* nothing was emitted, although an event had been delivered before
C20_Witness ==
    /\ last.op = "fetchResumed"
    /\ last.kind = "saveData"
    /\ Present
    /\ nEvents > 0
    /\ emitted = <<>>

====
